---- MODULE Spec2Model ----
(***************************************************************************)
(* Swap-request lifecycle and feedback gating of the Skill Swap Platform.  *)
(* The two request collections (SwapRequest, keyed by skill ids, and       *)
(* SimpleSwapRequest, keyed by skill labels) and the Feedback collection   *)
(* are the state; every route handler is split at the await that separates *)
(* its reads and checks from its write, so that handlers interleave the    *)
(* way they do on the Node event loop.                                     *)
(***************************************************************************)
EXTENDS Integers, FiniteSets, Sequences, Bags, TLC

\* ---------------------------------------------------------------- bounds
MaxSwaps == 2
MaxFeedback == 3
MaxInFlight == 2

\* ObjectIds of the users, as the lower-case hex strings ObjectId.toString()
\* yields.  Each has a User document with isActive true and isBanned false,
\* so protect lets each of them through as a caller.
Users == {"a1", "b2", "c3"}
\* The user who sends requests; "b2" receives them and "c3" is party to none.
Requesters == {"a1"}
\* Skill ids (structured schema) and skill labels (simple schema).
Skills == {"k1", "k2"}
\* The <<offered, wanted>> pairs requests are made for.
SkillPairs == {<<"k1", "k2">>, <<"k2", "k1">>}
\* The one UserSkill document the model lets its owner remove.
RemovableUserSkills == {<<"b2", "k2">>}
Ratings == {5}
\* A sub-rating the body does not carry.
Absent == 0
ResponseMessages == {"msg"}

SwapIds == 1..MaxSwaps
FeedbackIds == 1..MaxFeedback

Null == "null"
NoId == 0

\* ------------------------------------------------- ids in request bodies
\* isMongoId accepts any 24-digit hexadecimal string, upper or lower case;
\* Mongoose casts both spellings to the same ObjectId.
HexForms == {<<"a1", "a1">>, <<"A1", "a1">>,
             <<"b2", "b2">>, <<"B2", "b2">>,
             <<"c3", "c3">>, <<"C3", "c3">>,
             <<"d4", "d4">>}

BodyUserIds == {p[1] : p \in HexForms}

\* The requesteeId values the model sends.  "d4" is a well-formed ObjectId
\* that no User document carries.
BodyRequesteeIds == {"a1", "A1", "b2", "d4"}

\* The revieweeId values the model sends.
BodyRevieweeIds == {"a1", "b2", "B2", "c3"}

NoArg == [none |-> TRUE]

CastObjectId(s) == (CHOOSE p \in HexForms : p[1] = s)[2]

\* req.user.id: the id virtual, ObjectId.toString() of the caller.
ReqUserId(u) == u

VARIABLES
  swaps,       \* both request collections: id -> document
  feedbacks,   \* Feedback collection: id -> document
  userSkills,  \* active UserSkill documents of type 'offered': <<user, skill>>
  nextSwap,    \* number of request documents ever inserted
  nextFb,      \* number of Feedback documents ever inserted
  inflight,    \* handlers suspended between their checks and their write
  accounts,    \* User collection: id -> the isActive and isBanned flags
  last         \* response sent by the step just taken (NoResp when none)

vars == <<swaps, feedbacks, userSkills, nextSwap, nextFb, inflight, accounts, last>>

NoResp == [op |-> "none", schema |-> "none", code |-> 0, err |-> "none"]

\* res.status(code).json({message}): the route that answers, the HTTP
\* status and the kind of failure its message names.
Resp(op, schema, code, err) ==
  [op |-> op, schema |-> schema, code |-> code, err |-> err]

AllUserSkills == Users \X Skills

\* Every user registered: isActive defaults to true and isBanned to false.
AllActive == [u \in Users |-> [isActive |-> TRUE, isBanned |-> FALSE]]

Init ==
  /\ swaps = <<>>
  /\ feedbacks = <<>>
  /\ userSkills = AllUserSkills
  /\ accounts = AllActive
  /\ nextSwap = 0
  /\ nextFb = 0
  /\ inflight = EmptyBag
  /\ last = NoResp

\* ------------------------------------------------------------- protect
\* protect checking isActive only: the fault C27 is tested against.
ProtectPassesBanned(u) == accounts[u].isActive

\* next() is called: the token's user is active and not banned.
ProtectPasses(u) == accounts[u].isActive /\ ~accounts[u].isBanned

\* ------------------------------------------------------- storage helpers
ActiveStatuses == {"pending", "accepted"}

Exists(id, schema) == id \in DOMAIN swaps /\ swaps[id].schema = schema

SameTuple(d, e) ==
  /\ d.schema = e.schema
  /\ d.requester = e.requester
  /\ d.requestee = e.requestee
  /\ d.offeredSkill = e.offeredSkill
  /\ d.wantedSkill = e.wantedSkill

\* The duplicate query with the status filter narrowed to 'pending': the
\* fault C4 is tested against.
ExistingPendingRequest(d) ==
  \E i \in DOMAIN swaps : SameTuple(swaps[i], d) /\ swaps[i].status = "pending"

\* findOne({requester, requestee, offeredSkill, wantedSkill,
\*          status: {$in: ['pending', 'accepted']}})
ExistingRequest(d) ==
  \E i \in DOMAIN swaps : SameTuple(swaps[i], d) /\ swaps[i].status \in ActiveStatuses

\* The unique index of swapRequestSchema: its key holds the four tuple fields
\* and status, and only documents whose status is pending or accepted are
\* indexed.  The index of simpleSwapRequestSchema is not unique.
UniqueIndexViolated(id, d) ==
  /\ d.schema = "structured"
  /\ d.status \in ActiveStatuses
  /\ \E i \in DOMAIN swaps :
        i # id /\ SameTuple(swaps[i], d) /\ swaps[i].status = d.status

Remove(f, k) == [i \in DOMAIN f \ {k} |-> f[i]]

CanSuspend == BagCardinality(inflight) < MaxInFlight

Suspend(c) == inflight' = inflight (+) SetToBag({c})

Resume(c) == inflight' = inflight (-) SetToBag({c})

Cont(op, schema, id, arg) ==
  [op |-> op, schema |-> schema, id |-> id, arg |-> arg]

NewSwap(schema, requester, requestee, offered, wanted) ==
  [schema |-> schema, requester |-> requester, requestee |-> requestee,
   offeredSkill |-> offered, wantedSkill |-> wanted, status |-> "pending",
   responseMessage |-> Null, acceptedAt |-> Null, rejectedAt |-> Null,
   cancelledAt |-> Null, respondedAt |-> Null, completedAt |-> Null]

\* new Date()
NewDate == "date"

\* The status enums of the two schemas; save() validates the document
\* against them before it writes.
StructuredStatusEnum == {"pending", "accepted", "rejected", "cancelled", "completed"}
\* The simple schema's enum with rejected added: the fault C29 is tested
\* against.
SimpleStatusEnumWithRejected ==
  {"pending", "accepted", "declined", "completed", "cancelled", "rejected"}

SimpleStatusEnum == {"pending", "accepted", "declined", "completed", "cancelled"}

Validates(d) ==
  IF d.schema = "simple" THEN d.status \in SimpleStatusEnum
                         ELSE d.status \in StructuredStatusEnum

\* A response that writes nothing.
Reply(r) ==
  /\ last' = r
  /\ UNCHANGED <<accounts, swaps, feedbacks, userSkills, nextSwap, nextFb, inflight>>

\* The handler passed its checks and waits for its write.
Await(c) ==
  /\ CanSuspend
  /\ Suspend(c)
  /\ last' = NoResp
  /\ UNCHANGED <<accounts, swaps, feedbacks, userSkills, nextSwap, nextFb>>

\* save() writing before it validates: the fault C18 is tested against.
SaveUnvalidated(c, d) ==
  /\ Resume(c)
  /\ UNCHANGED <<accounts, feedbacks, userSkills, nextSwap, nextFb>>
  /\ IF c.id \notin DOMAIN swaps \/ UniqueIndexViolated(c.id, d)
       THEN /\ swaps' = swaps
            /\ last' = Resp(c.op, c.schema, 500, "ServerError")
       ELSE /\ swaps' = [swaps EXCEPT ![c.id] = d]
            /\ last' = IF Validates(d) THEN Resp(c.op, c.schema, 200, "ok")
                                       ELSE Resp(c.op, c.schema, 500, "ServerError")

\* document.save() of a loaded request document whose modified paths make
\* it d: validation, then updateOne({_id}, {$set: modified paths}).  The
\* update carries no condition on the status that was read.
Save(c, d) ==
  /\ Resume(c)
  /\ UNCHANGED <<accounts, feedbacks, userSkills, nextSwap, nextFb>>
  /\ IF ~Validates(d) \/ c.id \notin DOMAIN swaps \/ UniqueIndexViolated(c.id, d)
       THEN /\ swaps' = swaps
            /\ last' = Resp(c.op, c.schema, 500, "ServerError")
       ELSE /\ swaps' = [swaps EXCEPT ![c.id] = d]
            /\ last' = Resp(c.op, c.schema, 200, "ok")

\* save() replacing the stored document by the assigned fields alone: the
\* fault C28 is tested against.
LoadedBlank(c) == NewSwap(c.schema, Null, Null, Null, NoArg)

\* The document as the suspended handler holds it: the stored fields it
\* loaded, of which save() sends only the ones the handler assigned.
Loaded(c) == IF c.id \in DOMAIN swaps THEN swaps[c.id]
             ELSE NewSwap(c.schema, Null, Null, Null, NoArg)

\* ------------------------------------------------ POST /api/swaps/simple
CreateSimpleCheck(u, requesteeId, offeredSkill, wantedSkill) ==
  LET d == NewSwap("simple", u, CastObjectId(requesteeId), offeredSkill, wantedSkill) IN
  IF requesteeId = ReqUserId(u)
    THEN Reply(Resp("create", "simple", 400, "SelfRequest"))
  ELSE IF ExistingRequest(d)
    THEN Reply(Resp("create", "simple", 400, "DuplicateActive"))
  ELSE Await(Cont("create", "simple", NoId, d))

\* Number of inserts the suspended create handlers still have to make.
PendingCreates ==
  BagCardinality([c \in {b \in BagToSet(inflight) : b.op = "create"} |-> inflight[c]])

\* Model.create(): insert under the collection's indexes.
CreateInsert(c) ==
  /\ c.op = "create"
  /\ Resume(c)
  /\ UNCHANGED <<accounts, feedbacks, userSkills, nextFb>>
  /\ IF UniqueIndexViolated(NoId, c.arg)
       THEN /\ UNCHANGED <<accounts, swaps, nextSwap>>
            /\ last' = Resp("create", c.schema, 500, "ServerError")
       ELSE /\ nextSwap' = nextSwap + 1
            /\ swaps' = swaps @@ ((nextSwap + 1) :> c.arg)
            /\ last' = Resp("create", c.schema, 201, "ok")

\* ------------------------------------------------------- POST /api/swaps
\* The create handler without its requesteeSkill lookup: the fault C20 is
\* tested against.
CreateSwapCheckRequesterSkillOnly(u, requesteeId, offeredSkillId, wantedSkillId) ==
  LET d == NewSwap("structured", u, CastObjectId(requesteeId),
                   offeredSkillId, wantedSkillId) IN
  IF requesteeId = ReqUserId(u)
    THEN Reply(Resp("create", "structured", 400, "SelfRequest"))
  ELSE IF <<u, offeredSkillId>> \notin userSkills
    THEN Reply(Resp("create", "structured", 400, "SkillNotOwned"))
  ELSE IF ExistingRequest(d)
    THEN Reply(Resp("create", "structured", 400, "DuplicateActive"))
  ELSE Await(Cont("create", "structured", NoId, d))

CreateSwapCheck(u, requesteeId, offeredSkillId, wantedSkillId) ==
  LET d == NewSwap("structured", u, CastObjectId(requesteeId),
                   offeredSkillId, wantedSkillId) IN
  IF requesteeId = ReqUserId(u)
    THEN Reply(Resp("create", "structured", 400, "SelfRequest"))
  ELSE IF <<u, offeredSkillId>> \notin userSkills
    THEN Reply(Resp("create", "structured", 400, "SkillNotOwned"))
  ELSE IF <<CastObjectId(requesteeId), wantedSkillId>> \notin userSkills
    THEN Reply(Resp("create", "structured", 400, "SkillNotOffered"))
  ELSE IF ExistingRequest(d)
    THEN Reply(Resp("create", "structured", 400, "DuplicateActive"))
  ELSE Await(Cont("create", "structured", NoId, d))

\* --------------------------------------------- PUT /api/swaps/:id/accept
AcceptCheck(u, id, responseMessage) ==
  IF ~Exists(id, "structured")
    THEN Reply(Resp("accept", "structured", 404, "NotFound"))
  ELSE IF swaps[id].requestee # ReqUserId(u)
    THEN Reply(Resp("accept", "structured", 403, "Forbidden"))
  ELSE IF swaps[id].status # "pending"
    THEN Reply(Resp("accept", "structured", 400, "InvalidState"))
  ELSE Await(Cont("accept", "structured", id, [responseMessage |-> responseMessage]))

AcceptSave(c) ==
  /\ c.op = "accept" /\ c.schema = "structured"
  /\ Save(c, [Loaded(c) EXCEPT !.status = "accepted",
                               !.responseMessage = c.arg.responseMessage,
                               !.acceptedAt = NewDate])

\* --------------------------------------------- PUT /api/swaps/:id/reject
RejectCheck(u, id, responseMessage) ==
  IF ~Exists(id, "structured")
    THEN Reply(Resp("reject", "structured", 404, "NotFound"))
  ELSE IF swaps[id].requestee # ReqUserId(u)
    THEN Reply(Resp("reject", "structured", 403, "Forbidden"))
  ELSE IF swaps[id].status # "pending"
    THEN Reply(Resp("reject", "structured", 400, "InvalidState"))
  ELSE Await(Cont("reject", "structured", id, [responseMessage |-> responseMessage]))

RejectSave(c) ==
  /\ c.op = "reject" /\ c.schema = "structured"
  /\ Save(c, [Loaded(c) EXCEPT !.status = "rejected",
                               !.responseMessage = c.arg.responseMessage,
                               !.rejectedAt = NewDate])

\* --------------------------------------------- PUT /api/swaps/:id/cancel
CancelCheck(u, id) ==
  IF ~Exists(id, "structured")
    THEN Reply(Resp("cancel", "structured", 404, "NotFound"))
  ELSE IF swaps[id].requester # ReqUserId(u)
    THEN Reply(Resp("cancel", "structured", 403, "Forbidden"))
  ELSE IF swaps[id].status # "pending"
    THEN Reply(Resp("cancel", "structured", 400, "InvalidState"))
  ELSE Await(Cont("cancel", "structured", id, NoArg))

CancelSave(c) ==
  /\ c.op = "cancel" /\ c.schema = "structured"
  /\ Save(c, [Loaded(c) EXCEPT !.status = "cancelled",
                               !.cancelledAt = NewDate])

\* ------------------------------------------- PUT /api/swaps/:id/complete
CompleteCheck(u, id) ==
  IF ~Exists(id, "structured")
    THEN Reply(Resp("complete", "structured", 404, "NotFound"))
  ELSE IF swaps[id].requester # ReqUserId(u) /\ swaps[id].requestee # ReqUserId(u)
    THEN Reply(Resp("complete", "structured", 403, "Forbidden"))
  ELSE IF swaps[id].status # "accepted"
    THEN Reply(Resp("complete", "structured", 400, "InvalidState"))
  ELSE Await(Cont("complete", "structured", id, NoArg))

CompleteSave(c) ==
  /\ c.op = "complete" /\ c.schema = "structured"
  /\ Save(c, [Loaded(c) EXCEPT !.status = "completed",
                               !.completedAt = NewDate])

\* ------------------------------------------------ DELETE /api/swaps/:id
DeleteCheck(u, id) ==
  IF ~Exists(id, "structured")
    THEN Reply(Resp("delete", "structured", 404, "NotFound"))
  ELSE IF swaps[id].requester # ReqUserId(u)
    THEN Reply(Resp("delete", "structured", 403, "Forbidden"))
  ELSE IF swaps[id].status \notin {"pending", "rejected"}
    THEN Reply(Resp("delete", "structured", 400, "InvalidState"))
  ELSE Await(Cont("delete", "structured", id, NoArg))

\* findByIdAndDelete: removes the document if it is still there.
FindByIdAndDelete(c) ==
  /\ c.op = "delete"
  /\ Resume(c)
  /\ swaps' = Remove(swaps, c.id)
  /\ last' = Resp("delete", c.schema, 200, "ok")
  /\ UNCHANGED <<accounts, feedbacks, userSkills, nextSwap, nextFb>>

\* --------------------------------- PATCH /api/swaps/simple/:id/complete
\* populate() leaves null where the referenced User document is missing, and
\* reading ._id of it throws into the handler's catch.
Populated(userId) == IF userId \in Users THEN userId ELSE Null

SimpleCompleteCheck(u, id) ==
  IF ~Exists(id, "simple")
    THEN Reply(Resp("complete", "simple", 404, "NotFound"))
  ELSE IF swaps[id].requester # ReqUserId(u) /\ Populated(swaps[id].requestee) = Null
    THEN Reply(Resp("complete", "simple", 500, "ServerError"))
  ELSE IF swaps[id].requester # ReqUserId(u) /\ swaps[id].requestee # ReqUserId(u)
    THEN Reply(Resp("complete", "simple", 403, "Forbidden"))
  ELSE IF swaps[id].status # "accepted"
    THEN Reply(Resp("complete", "simple", 400, "InvalidState"))
  ELSE Await(Cont("complete", "simple", id, NoArg))

SimpleCompleteSave(c) ==
  /\ c.op = "complete" /\ c.schema = "simple"
  /\ Save(c, [Loaded(c) EXCEPT !.status = "completed",
                               !.completedAt = NewDate])

\* ---------------------------------- PATCH /api/swaps/simple/:id/:action
SimpleActions == {"accept", "reject", "cancel"}

SimpleActionCheck(u, id, action) ==
  IF action \notin {"accept", "reject"}
    THEN Reply(Resp(action, "simple", 400, "InvalidAction"))
  ELSE IF ~Exists(id, "simple")
    THEN Reply(Resp(action, "simple", 404, "NotFound"))
  ELSE IF Populated(swaps[id].requestee) = Null
    THEN Reply(Resp(action, "simple", 500, "ServerError"))
  ELSE IF swaps[id].requestee # ReqUserId(u)
    THEN Reply(Resp(action, "simple", 403, "Forbidden"))
  ELSE IF swaps[id].status # "pending"
    THEN Reply(Resp(action, "simple", 400, "InvalidState"))
  ELSE Await(Cont(action, "simple", id, NoArg))

SimpleActionSave(c) ==
  /\ c.op \in {"accept", "reject"} /\ c.schema = "simple"
  /\ Save(c, [Loaded(c) EXCEPT !.status =
                IF c.op = "accept" THEN "accepted" ELSE "rejected"])

\* ----------------------------------------- DELETE /api/swaps/simple/:id
SimpleDeleteCheck(u, id) ==
  IF ~Exists(id, "simple")
    THEN Reply(Resp("delete", "simple", 404, "NotFound"))
  ELSE IF swaps[id].requester # ReqUserId(u) /\ swaps[id].requestee # ReqUserId(u)
    THEN Reply(Resp("delete", "simple", 403, "Forbidden"))
  ELSE Await(Cont("delete", "simple", id, NoArg))

\* --------------------------------------- DELETE /api/skills/:id/remove
RemoveUserSkill(u, k) ==
  /\ <<u, k>> \in userSkills
  /\ userSkills' = userSkills \ {<<u, k>>}
  /\ last' = NoResp
  /\ UNCHANGED <<accounts, swaps, feedbacks, nextSwap, nextFb, inflight>>

\* ------------------------------------------------------ Feedback model
NewFeedback(swapRequest, reviewer, reviewee, rating, skillRating, communicationRating, recommendsUser, isPublic) ==
  [swapRequest |-> swapRequest, reviewer |-> reviewer, reviewee |-> reviewee,
   rating |-> rating, skillRating |-> skillRating,
   communicationRating |-> communicationRating,
   recommendsUser |-> recommendsUser, isPublic |-> isPublic]

\* The feedback query keyed by reviewee where the code keys it by reviewer:
\* the fault C10 is tested against.
ExistingFeedbackByReviewee(swapRequest, reviewer) ==
  \E f \in DOMAIN feedbacks :
     feedbacks[f].swapRequest = swapRequest /\ feedbacks[f].reviewee = reviewer

\* Feedback.findOne({swapRequest, reviewer})
ExistingFeedback(swapRequest, reviewer) ==
  \E f \in DOMAIN feedbacks :
     feedbacks[f].swapRequest = swapRequest /\ feedbacks[f].reviewer = reviewer

\* Feedback.findOne({reviewer, reviewee, swapRequest})
ExistingSimpleFeedback(swapRequest, reviewer, reviewee) ==
  \E f \in DOMAIN feedbacks :
     /\ feedbacks[f].swapRequest = swapRequest
     /\ feedbacks[f].reviewer = reviewer
     /\ feedbacks[f].reviewee = reviewee

\* The Feedback collection without its unique index: the fault C23 is
\* tested against.
FeedbackIndexMissing(d) == FALSE

\* feedbackSchema.index({swapRequest: 1, reviewer: 1}, {unique: true})
FeedbackIndexViolated(d) == ExistingFeedback(d.swapRequest, d.reviewer)

PendingFeedbackCreates ==
  BagCardinality([c \in {b \in BagToSet(inflight) : b.op = "feedback"} |-> inflight[c]])

OtherParty(u, id) ==
  IF swaps[id].requester = ReqUserId(u) THEN swaps[id].requestee
                                        ELSE swaps[id].requester

\* ---------------------------------------------------- POST /api/feedback
FeedbackCheck(u, swapRequestId, revieweeId, rating) ==
  IF ~Exists(swapRequestId, "structured")
    THEN Reply(Resp("feedback", "structured", 404, "NotFound"))
  ELSE IF swaps[swapRequestId].status # "completed"
    THEN Reply(Resp("feedback", "structured", 400, "InvalidState"))
  ELSE IF /\ swaps[swapRequestId].requester # ReqUserId(u)
          /\ swaps[swapRequestId].requestee # ReqUserId(u)
    THEN Reply(Resp("feedback", "structured", 403, "Forbidden"))
  ELSE IF revieweeId = ReqUserId(u)
    THEN Reply(Resp("feedback", "structured", 400, "ReviewSelf"))
  ELSE IF revieweeId # OtherParty(u, swapRequestId)
    THEN Reply(Resp("feedback", "structured", 400, "NotOtherParty"))
  ELSE IF ExistingFeedback(swapRequestId, u)
    THEN Reply(Resp("feedback", "structured", 400, "AlreadyReviewed"))
  ELSE Await(Cont("feedback", "structured", swapRequestId,
                  NewFeedback(swapRequestId, u, CastObjectId(revieweeId), rating,
                              Absent, Absent, TRUE, TRUE)))

\* The simple feedback handler letting accepted swaps through as well: the
\* fault C11 is tested against.
SimpleFeedbackCheckAccepted(u, swapId, rating) ==
  IF ~Exists(swapId, "simple")
    THEN Reply(Resp("feedback", "simple", 404, "NotFound"))
  ELSE IF swaps[swapId].status \notin {"completed", "accepted"}
    THEN Reply(Resp("feedback", "simple", 400, "InvalidState"))
  ELSE IF /\ swaps[swapId].requester # ReqUserId(u)
          /\ swaps[swapId].requestee # ReqUserId(u)
    THEN Reply(Resp("feedback", "simple", 403, "Forbidden"))
  ELSE IF ExistingSimpleFeedback(swapId, u, OtherParty(u, swapId))
    THEN Reply(Resp("feedback", "simple", 400, "AlreadyReviewed"))
  ELSE Await(Cont("feedback", "simple", swapId,
                  NewFeedback(swapId, u, OtherParty(u, swapId), rating,
                              rating, rating, TRUE, TRUE)))

\* --------------------------------------------- POST /api/feedback/simple
SimpleFeedbackCheck(u, swapId, rating) ==
  IF ~Exists(swapId, "simple")
    THEN Reply(Resp("feedback", "simple", 404, "NotFound"))
  ELSE IF swaps[swapId].status # "completed"
    THEN Reply(Resp("feedback", "simple", 400, "InvalidState"))
  ELSE IF /\ swaps[swapId].requester # ReqUserId(u)
          /\ swaps[swapId].requestee # ReqUserId(u)
    THEN Reply(Resp("feedback", "simple", 403, "Forbidden"))
  ELSE IF ExistingSimpleFeedback(swapId, u, OtherParty(u, swapId))
    THEN Reply(Resp("feedback", "simple", 400, "AlreadyReviewed"))
  ELSE Await(Cont("feedback", "simple", swapId,
                  NewFeedback(swapId, u, OtherParty(u, swapId), rating,
                              rating, rating, TRUE, TRUE)))

\* The insert that also writes to the swap it reviews: the fault C24 is
\* tested against.
FeedbackInsertMarkingSwap(c) ==
  /\ c.op = "feedback"
  /\ Resume(c)
  /\ UNCHANGED <<accounts, userSkills, nextSwap>>
  /\ IF FeedbackIndexViolated(c.arg)
       THEN /\ UNCHANGED <<accounts, swaps, feedbacks, nextFb>>
            /\ last' = Resp("feedback", c.schema, 500, "ServerError")
       ELSE /\ nextFb' = nextFb + 1
            /\ feedbacks' = feedbacks @@ ((nextFb + 1) :> c.arg)
            /\ swaps' = [swaps EXCEPT ![c.arg.swapRequest].responseMessage = "reviewed"]
            /\ last' = Resp("feedback", c.schema, 201, "ok")

\* Feedback.create(): insert under the unique index.
FeedbackInsert(c) ==
  /\ c.op = "feedback"
  /\ Resume(c)
  /\ UNCHANGED <<accounts, swaps, userSkills, nextSwap>>
  /\ IF FeedbackIndexViolated(c.arg)
       THEN /\ UNCHANGED <<accounts, feedbacks, nextFb>>
            /\ last' = Resp("feedback", c.schema, 500, "ServerError")
       ELSE /\ nextFb' = nextFb + 1
            /\ feedbacks' = feedbacks @@ ((nextFb + 1) :> c.arg)
            /\ last' = Resp("feedback", c.schema, 201, "ok")

\* ------------------------------------------------- PUT /api/feedback/:id
\* The fields the handler copies from the body into updateData.
UpdatableFields == {"rating", "comment", "skillRating", "communicationRating",
                    "recommendsUser", "isPublic"}

\* The bodies the model sends: a new rating, together with a reviewee the
\* handler has no business with.
UpdateBodies == {[rating |-> 4, reviewee |-> "c3"]}

\* The whole body handed on as the update: the fault C25 is tested against.
UpdateDataWholeBody(b) == b

\* updateData: the body's fields that are defined and updatable.
UpdateData(b) == [k \in DOMAIN b \cap UpdatableFields |-> b[k]]

\* $set of updateData on the stored document.
ApplyUpdate(f, updateData) ==
  [k \in DOMAIN f |-> IF k \in DOMAIN updateData THEN updateData[k] ELSE f[k]]

FeedbackUpdateCheck(u, id, b) ==
  IF id \notin DOMAIN feedbacks
    THEN Reply(Resp("updateFeedback", "feedback", 404, "NotFound"))
  ELSE IF feedbacks[id].reviewer # ReqUserId(u)
    THEN Reply(Resp("updateFeedback", "feedback", 403, "Forbidden"))
  ELSE Await(Cont("updateFeedback", "feedback", id, UpdateData(b)))

\* Feedback.findByIdAndUpdate(id, updateData, {new: true}): null, and still
\* 200, when the document is gone.
FeedbackFindByIdAndUpdate(c) ==
  /\ c.op = "updateFeedback"
  /\ Resume(c)
  /\ feedbacks' = IF c.id \in DOMAIN feedbacks
                    THEN [feedbacks EXCEPT ![c.id] = ApplyUpdate(@, c.arg)]
                    ELSE feedbacks
  /\ last' = Resp("updateFeedback", "feedback", 200, "ok")
  /\ UNCHANGED <<accounts, swaps, userSkills, nextSwap, nextFb>>

\* ---------------------------------------------- DELETE /api/feedback/:id
FeedbackDeleteCheck(u, id) ==
  IF id \notin DOMAIN feedbacks
    THEN Reply(Resp("deleteFeedback", "feedback", 404, "NotFound"))
  ELSE IF feedbacks[id].reviewer # ReqUserId(u)
    THEN Reply(Resp("deleteFeedback", "feedback", 403, "Forbidden"))
  ELSE Await(Cont("deleteFeedback", "feedback", id, NoArg))

FeedbackFindByIdAndDelete(c) ==
  /\ c.op = "deleteFeedback"
  /\ Resume(c)
  /\ feedbacks' = Remove(feedbacks, c.id)
  /\ last' = Resp("deleteFeedback", "feedback", 200, "ok")
  /\ UNCHANGED <<accounts, swaps, userSkills, nextSwap, nextFb>>

\* ---------------------------------------------- GET /api/swaps/completed
\* const { page = 1, limit = 10 } = req.query
DefaultLimit == 10

Pages == {1, 2}

Limits == {1, DefaultLimit}

Min(a, b) == IF a < b THEN a ELSE b

\* SimpleSwapRequest.find({status: 'completed', $or: [{requester}, {requestee}]})
CompletedQuery(u) ==
  {id \in DOMAIN swaps :
     /\ swaps[id].schema = "simple"
     /\ swaps[id].status = "completed"
     /\ swaps[id].requester = ReqUserId(u) \/ swaps[id].requestee = ReqUserId(u)}

\* .sort({completedAt: -1}): the orders the cursor may return the documents
\* in.  Every completion date of the model is NewDate, and documents with
\* equal sort keys come in an order of the storage's choosing.
SortedByCompletedAt(S) ==
  {q \in [1..Cardinality(S) -> S] :
     \A i, j \in 1..Cardinality(S) : i # j => q[i] # q[j]}

\* .skip((page - 1) * limit).limit(parseInt(limit))
SkipLimit(q, page, limit) ==
  SubSeq(q, (page - 1) * limit + 1, Min(page * limit, Len(q)))

\* The fault C13 is tested against: the swaps for which the user received
\* feedback, where the code takes those for which the user gave it.
ReceivedFeedbackSwapIds(u) ==
  {feedbacks[f].swapRequest :
     f \in {g \in DOMAIN feedbacks : feedbacks[g].reviewee = ReqUserId(u)}}

\* Feedback.find({reviewer: req.user.id}).distinct('swapRequest')
GivenFeedbackSwapIds(u) ==
  {feedbacks[f].swapRequest :
     f \in {g \in DOMAIN feedbacks : feedbacks[g].reviewer = ReqUserId(u)}}

\* swapsNeedingFeedback: the page of the query, in the order q, without
\* the swaps the user has given feedback for.
SwapsNeedingFeedback(u, page, limit, q) ==
  LET given == GivenFeedbackSwapIds(u)
      Keep(id) == id \notin given
  IN SelectSeq(SkipLimit(q, page, limit), Keep)

\* ----------------------------------------- GET /api/feedback/user/:userId
\* The fault C15 is tested against: the query without its isPublic filter.
AllFeedbackOf(userId) ==
  {f \in DOMAIN feedbacks : feedbacks[f].reviewee = CastObjectId(userId)}

\* Feedback.find({reviewee: req.params.userId, isPublic: true})
PublicFeedbackOf(userId) ==
  {f \in DOMAIN feedbacks :
     feedbacks[f].reviewee = CastObjectId(userId) /\ feedbacks[f].isPublic}

\* .sort({createdAt: -1}): newest first.  Feedback ids are handed out in the
\* order of the inserts, which is the order of createdAt.
RECURSIVE SortedByCreatedAt(_)
SortedByCreatedAt(S) ==
  IF S = {} THEN <<>>
  ELSE LET newest == CHOOSE f \in S : \A g \in S : g <= f
       IN <<newest>> \o SortedByCreatedAt(S \ {newest})

\* The page of feedback documents the find returns.
FeedbackPage(userId, page, limit) ==
  LET q == SkipLimit(SortedByCreatedAt(PublicFeedbackOf(userId)), page, limit)
  IN [i \in DOMAIN q |-> feedbacks[q[i]]]

\* feedback.reduce((sum, f) => sum + f.rating, 0)
RECURSIVE SumRating(_)
SumRating(fb) ==
  IF fb = <<>> THEN 0 ELSE Head(fb).rating + SumRating(Tail(fb))

\* feedback.reduce((sum, f) => sum + (f.skillRating || 0), 0)
RECURSIVE SumSkillRating(_)
SumSkillRating(fb) ==
  IF fb = <<>> THEN 0 ELSE Head(fb).skillRating + SumSkillRating(Tail(fb))

\* feedback.reduce((sum, f) => sum + (f.communicationRating || 0), 0)
RECURSIVE SumCommunicationRating(_)
SumCommunicationRating(fb) ==
  IF fb = <<>> THEN 0
  ELSE Head(fb).communicationRating + SumCommunicationRating(Tail(fb))

\* Math.round(sum / n * 10) / 10, as a number of tenths: Math.round rounds
\* to the nearest integer, a half upwards.
RoundTenths(sum, n) == (20 * sum + n) \div (2 * n)

\* feedback.length > 0 ? sum / feedback.length : 0, then rounded.
Average(sum, n) == IF n > 0 THEN RoundTenths(sum, n) ELSE 0

GetUserFeedback(userId, page, limit) ==
  LET feedback == FeedbackPage(userId, page, limit) IN
  /\ last' = [op |-> "userFeedback", schema |-> "feedback", code |-> 200, err |-> "ok",
              totalFeedback |-> Cardinality(PublicFeedbackOf(userId)),
              avgRating |-> Average(SumRating(feedback), Len(feedback)),
              avgSkillRating |-> Average(SumSkillRating(feedback), Len(feedback)),
              avgCommunicationRating |->
                 Average(SumCommunicationRating(feedback), Len(feedback))]
  /\ UNCHANGED <<accounts, swaps, feedbacks, userSkills, nextSwap, nextFb, inflight>>

\* ------------------------------------------------------ GET /api/users/:id
\* .limit(10)
ProfileFeedbackLimit == 10

\* The profile of a stored user whose profileVisibility is 'public'.
GetUserProfile(id) ==
  LET feedback == FeedbackPage(id, 1, ProfileFeedbackLimit) IN
  /\ last' = [op |-> "userProfile", schema |-> "user", code |-> 200, err |-> "ok",
              totalFeedback |-> Len(feedback),
              avgRating |-> Average(SumRating(feedback), Len(feedback))]
  /\ UNCHANGED <<accounts, swaps, feedbacks, userSkills, nextSwap, nextFb, inflight>>

\* A request to the swap routes arrives and its handler runs up to its
\* write.
SwapCreateRequests ==
  \E u \in Requesters, r \in BodyRequesteeIds, k \in SkillPairs :
     /\ ProtectPasses(u)
     /\ nextSwap + PendingCreates < MaxSwaps
     /\ \/ CreateSimpleCheck(u, r, k[1], k[2])
        \/ CreateSwapCheck(u, r, k[1], k[2])

SwapTransitionRequests ==
  \/ \E u \in Users, id \in SwapIds, m \in ResponseMessages :
        /\ ProtectPasses(u)
        /\ \/ AcceptCheck(u, id, m)
           \/ RejectCheck(u, id, m)
  \/ \E u \in Users, id \in SwapIds :
        /\ ProtectPasses(u)
        /\ \/ CancelCheck(u, id)
           \/ CompleteCheck(u, id)
           \/ DeleteCheck(u, id)
           \/ SimpleCompleteCheck(u, id)
           \/ SimpleDeleteCheck(u, id)
           \/ \E a \in SimpleActions : SimpleActionCheck(u, id, a)
  \/ \E p \in RemovableUserSkills : ProtectPasses(p[1]) /\ RemoveUserSkill(p[1], p[2])

SwapRequests == SwapCreateRequests \/ SwapTransitionRequests

\* A suspended swap handler resumes with its write.
SwapCommits ==
  \E c \in BagToSet(inflight) :
        \/ CreateInsert(c)
        \/ AcceptSave(c)
        \/ RejectSave(c)
        \/ CancelSave(c)
        \/ CompleteSave(c)
        \/ FindByIdAndDelete(c)
        \/ SimpleCompleteSave(c)
        \/ SimpleActionSave(c)

\* A request to the feedback routes arrives.
FeedbackSubmitRequests ==
  \E u \in Users, id \in SwapIds, r \in Ratings :
     /\ ProtectPasses(u)
     /\ nextFb + PendingFeedbackCreates < MaxFeedback
     /\ \/ \E e \in BodyRevieweeIds : FeedbackCheck(u, id, e, r)
        \/ SimpleFeedbackCheck(u, id, r)

FeedbackDeleteRequests ==
  \E u \in Users, id \in FeedbackIds :
     ProtectPasses(u) /\ FeedbackDeleteCheck(u, id)

FeedbackRequests == FeedbackSubmitRequests \/ FeedbackDeleteRequests

\* A suspended feedback handler resumes with its write.
FeedbackCommits ==
  \E c \in BagToSet(inflight) :
        \/ FeedbackInsert(c)
        \/ FeedbackFindByIdAndDelete(c)

\* The response has left; the next step is taken.
Deliver ==
  /\ last # NoResp
  /\ last' = NoResp
  /\ UNCHANGED <<accounts, swaps, feedbacks, userSkills, nextSwap, nextFb, inflight>>

\* Requests handled one at a time: a handler starts when none is suspended.
Next ==
  \/ last = NoResp /\ inflight = EmptyBag /\ SwapRequests
  \/ last = NoResp /\ inflight = EmptyBag /\ FeedbackRequests
  \/ last = NoResp /\ SwapCommits
  \/ last = NoResp /\ FeedbackCommits
  \/ Deliver

Spec == Init /\ [][Next]_vars

\* The swap routes under concurrent requests: up to MaxInFlight handlers are
\* suspended between their checks and their write, and resume in any order.
RaceNext ==
  \/ last = NoResp /\ SwapRequests
  \/ last = NoResp /\ SwapCommits
  \/ Deliver

RaceSpec == Init /\ [][RaceNext]_vars

\* The feedback routes under concurrent requests, over swaps the swap routes
\* have brought to completed (and one they have not): submissions, updates
\* and deletes are suspended between their checks and their write, up to
\* MaxInFlight at a time, and resume in any order.
FeedbackSwapStatuses == {"accepted", "completed"}

FeedbackSwap(schema, status) ==
  [NewSwap(schema, "a1", "b2", "k1", "k2")
     EXCEPT !.status = status,
            !.acceptedAt = IF schema = "structured" THEN NewDate ELSE Null,
            !.completedAt = IF status = "completed" THEN NewDate ELSE Null]

FeedbackInit ==
  /\ \E s \in FeedbackSwapStatuses :
        swaps = <<FeedbackSwap("structured", "completed"), FeedbackSwap("simple", s)>>
  /\ feedbacks = <<>>
  /\ userSkills = AllUserSkills
  /\ accounts = AllActive
  /\ nextSwap = 2
  /\ nextFb = 0
  /\ inflight = EmptyBag
  /\ last = NoResp

FeedbackUpdateRequests ==
  \E u \in Users, id \in FeedbackIds, b \in UpdateBodies :
     ProtectPasses(u) /\ FeedbackUpdateCheck(u, id, b)

FeedbackUpdateCommits ==
  \E c \in BagToSet(inflight) : FeedbackFindByIdAndUpdate(c)

FeedbackNext ==
  \/ last = NoResp /\ FeedbackRequests
  \/ last = NoResp /\ FeedbackUpdateRequests
  \/ last = NoResp /\ FeedbackCommits
  \/ last = NoResp /\ FeedbackUpdateCommits
  \/ Deliver

FeedbackSpec == FeedbackInit /\ [][FeedbackNext]_vars

\* ------------------------------------------- bans and account deletion
\* protect answers in the handler's place: 401 for an inactive account, 403
\* for a banned one.
ProtectRefuse(u) ==
  /\ ~ProtectPasses(u)
  /\ Reply(IF ~accounts[u].isActive
             THEN Resp("protect", "auth", 401, "Inactive")
             ELSE Resp("protect", "auth", 403, "Banned"))

BanActions == {"ban", "unban"}

\* The users the admin bans and unbans, and the user who deletes the
\* account.
BanTargets == {"a1", "b2"}
Leavers == {"b2"}

\* PUT /api/admin/users/:id/ban
BanUser(id, action) ==
  /\ accounts' = [accounts EXCEPT ![id].isBanned = (action = "ban")]
  /\ last' = Resp(action, "admin", 200, "ok")
  /\ UNCHANGED <<swaps, feedbacks, userSkills, nextSwap, nextFb, inflight>>

\* DELETE /api/users/account: the soft delete.
DeleteAccount(u) ==
  /\ accounts' = [accounts EXCEPT ![u].isActive = FALSE]
  /\ last' = Resp("deleteAccount", "user", 200, "ok")
  /\ UNCHANGED <<swaps, feedbacks, userSkills, nextSwap, nextFb, inflight>>

\* The swap and feedback routes with requests handled one at a time, while
\* the admin bans and unbans users and a user deletes the account.  The
\* history is kept to MaxBanSwaps requests and MaxBanFeedback feedback
\* records.
MaxBanSwaps == 1
MaxBanFeedback == 1

BanNext ==
  \/ last = NoResp /\ inflight = EmptyBag /\ nextSwap < MaxBanSwaps /\ SwapCreateRequests
  \/ last = NoResp /\ inflight = EmptyBag /\ SwapTransitionRequests
  \/ last = NoResp /\ inflight = EmptyBag /\ nextFb < MaxBanFeedback /\ FeedbackSubmitRequests
  \/ last = NoResp /\ inflight = EmptyBag /\ FeedbackDeleteRequests
  \/ last = NoResp /\ inflight = EmptyBag /\ FeedbackUpdateRequests
  \/ last = NoResp /\ SwapCommits
  \/ last = NoResp /\ FeedbackCommits
  \/ last = NoResp /\ FeedbackUpdateCommits
  \/ last = NoResp /\ inflight = EmptyBag /\ \E u \in Users : ProtectRefuse(u)
  \/ last = NoResp /\ inflight = EmptyBag
        /\ \E id \in BanTargets, action \in BanActions : BanUser(id, action)
  \/ last = NoResp /\ inflight = EmptyBag
        /\ \E u \in Leavers : ProtectPasses(u) /\ DeleteAccount(u)
  \/ Deliver

BanSpec == Init /\ [][BanNext]_vars

\* The rating aggregates over stored feedback.  The initial states are the
\* states left by up to MaxRated swaps of a1 with b2, each created, accepted
\* and completed through the structured routes and then reviewed by a1
\* through POST /api/feedback with the body's rating, optional sub-ratings
\* and isPublic flag.
MaxRated == 3

RatedRatings == {1, 5}

RatedSkillRatings == {Absent, 4}

RatedCommunicationRatings == {Absent, 3}

RatedFeedback(i) ==
  {NewFeedback(i, "a1", "b2", r, s, c, TRUE, p) :
     r \in RatedRatings, s \in RatedSkillRatings,
     c \in RatedCommunicationRatings, p \in BOOLEAN}

RatedSwap ==
  [NewSwap("structured", "a1", "b2", "k1", "k2")
     EXCEPT !.status = "completed", !.acceptedAt = NewDate, !.completedAt = NewDate]

RatedInit ==
  \E n \in 0..MaxRated :
     /\ swaps = [i \in 1..n |-> RatedSwap]
     /\ feedbacks \in {fb \in [1..n -> UNION {RatedFeedback(i) : i \in 1..n}] :
                          \A i \in 1..n : fb[i].swapRequest = i}
     /\ userSkills = AllUserSkills
  /\ accounts = AllActive
     /\ nextSwap = n
     /\ nextFb = n
     /\ inflight = EmptyBag
     /\ last = NoResp

RatedNext ==
  \/ last = NoResp /\ \E u \in Users, page \in Pages, limit \in Limits :
                         GetUserFeedback(u, page, limit)
  \/ last = NoResp /\ \E u \in Users : GetUserProfile(u)
  \/ Deliver

RatedSpec == RatedInit /\ [][RatedNext]_vars

\* ================================================================ claims

\* The edges of the lifecycle table.
Edges == {<<"pending", "accepted">>, <<"pending", "rejected">>,
          <<"pending", "cancelled">>, <<"accepted", "completed">>}

\* The status a transition requires of the record it is applied to.
Precondition(op) == IF op = "complete" THEN "accepted" ELSE "pending"

\* The write of a suspended accept, reject, cancel or complete handler.
TransitionSave(c) ==
  \/ AcceptSave(c)
  \/ RejectSave(c)
  \/ CancelSave(c)
  \/ CompleteSave(c)
  \/ SimpleCompleteSave(c)
  \/ SimpleActionSave(c)

\* Some stored request of the schema is pending or accepted for the tuple.
ActiveTuple(schema, requester, requestee, offered, wanted) ==
  \E i \in DOMAIN swaps :
     /\ swaps[i].schema = schema
     /\ swaps[i].requester = requester
     /\ swaps[i].requestee = requestee
     /\ swaps[i].offeredSkill = offered
     /\ swaps[i].wantedSkill = wanted
     /\ swaps[i].status \in {"pending", "accepted"}

\* Nothing was written and no handler was suspended.
NothingWritten ==
  /\ swaps' = swaps
  /\ feedbacks' = feedbacks
  /\ inflight' = inflight

\* --------------------------------------------------------------------- C1
\* C1: the status of a stored request, of either schema, changes only along
\* the edges pending->accepted, pending->rejected, pending->cancelled and
\* accepted->completed.
C1_StatusEdges ==
  [][\A id \in DOMAIN swaps \cap DOMAIN swaps' :
        swaps'[id].status # swaps[id].status
          => <<swaps[id].status, swaps'[id].status>> \in Edges]_vars

\* --------------------------------------------------------------------- C2
\* C2: when transitions on one record interleave, a handler that resumes
\* after another one has changed the status it checked reports InvalidState
\* and overwrites nothing.
C2_NoOverwrite ==
  [][\A c \in BagToSet(inflight) :
        (/\ c.id \in DOMAIN swaps
         /\ TransitionSave(c)
         /\ swaps[c.id].status # Precondition(c.op))
        => /\ last'.code = 400
           /\ last'.err = "InvalidState"
           /\ swaps' = swaps]_vars

\* --------------------------------------------------------------------- C3
\* C3: in every reachable state, interleaved creates and a create
\* interleaved with an accept included, at most one request that is pending
\* or accepted exists for a (requester, requestee, offeredSkill, wantedSkill)
\* tuple.
C3_OneActivePerTuple ==
  \A i, j \in DOMAIN swaps :
     (/\ SameTuple(swaps[i], swaps[j])
      /\ swaps[i].status \in ActiveStatuses
      /\ swaps[j].status \in ActiveStatuses) => i = j

\* --------------------------------------------------------------------- C4
\* C4: a create that passes the guards ahead of the duplicate query (it is
\* not addressed to the caller and, on the structured route, both skills are
\* offered) is refused with DuplicateActive and stores nothing exactly when
\* a pending or accepted request exists for its tuple; when none exists
\* (there was none, or it was rejected, cancelled, completed or deleted) it
\* goes on to its insert, which stores the request as pending and answers
\* 201.
C4_DuplicateActive ==
  [][/\ \A u \in Requesters, r \in BodyRequesteeIds, k \in SkillPairs :
          /\ (r # u /\ CreateSimpleCheck(u, r, k[1], k[2]))
               => IF ActiveTuple("simple", u, CastObjectId(r), k[1], k[2])
                    THEN /\ last' = Resp("create", "simple", 400, "DuplicateActive")
                         /\ NothingWritten
                    ELSE /\ swaps' = swaps
                         /\ inflight' = inflight (+) SetToBag({Cont("create", "simple", NoId,
                               NewSwap("simple", u, CastObjectId(r), k[1], k[2]))})
          /\ (/\ r # u
              /\ <<u, k[1]>> \in userSkills
              /\ <<CastObjectId(r), k[2]>> \in userSkills
              /\ CreateSwapCheck(u, r, k[1], k[2]))
               => IF ActiveTuple("structured", u, CastObjectId(r), k[1], k[2])
                    THEN /\ last' = Resp("create", "structured", 400, "DuplicateActive")
                         /\ NothingWritten
                    ELSE /\ swaps' = swaps
                         /\ inflight' = inflight (+) SetToBag({Cont("create", "structured", NoId,
                               NewSwap("structured", u, CastObjectId(r), k[1], k[2]))})
     /\ \A c \in BagToSet(inflight) :
          CreateInsert(c)
            => /\ last'.code = 201
               /\ c.arg.status = "pending"
               /\ DOMAIN swaps' = DOMAIN swaps \cup {nextSwap + 1}
               /\ swaps'[nextSwap + 1] = c.arg
               /\ \A i \in DOMAIN swaps : swaps'[i] = swaps[i]]_vars

\* The first request for a tuple was rejected and a second create for the
\* same tuple has just been stored as pending.
C4_Witness ==
  /\ last = Resp("create", "structured", 201, "ok")
  /\ DOMAIN swaps = {1, 2}
  /\ swaps[1].status = "rejected"
  /\ swaps[2].status = "pending"
  /\ swaps[1].requester = swaps[2].requester
  /\ swaps[1].requestee = swaps[2].requestee
  /\ swaps[1].offeredSkill = swaps[2].offeredSkill
  /\ swaps[1].wantedSkill = swaps[2].wantedSkill
  /\ swaps[1].schema = swaps[2].schema

\* --------------------------------------------------------------------- C5
\* C5: every stored request has a requestee other than its requester.
C5_NoSelfRequest ==
  \A id \in DOMAIN swaps : swaps[id].requester # swaps[id].requestee

\* --------------------------------------------------------------------- C6
\* C6: an accept or a reject attempted on a stored request by anyone but its
\* requestee is answered 403 Forbidden whatever the status of the request,
\* and writes nothing, on the structured and on the simple routes.
C6_RequesteeExclusive ==
  [][\A u \in Users, id \in SwapIds :
       (/\ id \in DOMAIN swaps
        /\ swaps[id].requestee # u
        /\ \/ /\ swaps[id].schema = "structured"
              /\ \E m \in ResponseMessages :
                    AcceptCheck(u, id, m) \/ RejectCheck(u, id, m)
           \/ /\ swaps[id].schema = "simple"
              /\ \E a \in {"accept", "reject"} : SimpleActionCheck(u, id, a))
       => /\ last'.code = 403
          /\ last'.err = "Forbidden"
          /\ last'.op \in {"accept", "reject"}
          /\ NothingWritten]_vars

\* --------------------------------------------------------------------- C7
\* C7: a cancel or a delete attempted on a stored request by anyone but its
\* requester is answered 403 Forbidden and leaves the record in place, on
\* the structured and on the simple routes.
C7_RequesterExclusive ==
  [][\A u \in Users, id \in SwapIds :
       (/\ id \in DOMAIN swaps
        /\ swaps[id].requester # u
        /\ \/ /\ swaps[id].schema = "structured"
              /\ CancelCheck(u, id) \/ DeleteCheck(u, id)
           \/ /\ swaps[id].schema = "simple"
              /\ SimpleDeleteCheck(u, id))
       => /\ last'.code = 403
          /\ last'.err = "Forbidden"
          /\ NothingWritten]_vars

\* --------------------------------------------------------------------- C8
\* C8: a complete called by someone who is neither requester nor requestee
\* is answered 403 Forbidden, one called by a participant on a request that
\* is not accepted is answered 400 InvalidState, and neither writes
\* anything; only a participant's call on an accepted request goes on to its
\* write, and the write that succeeds sets status to completed and
\* completedAt and nothing else.
C8_CompleteGuards ==
  [][/\ \A u \in Users, id \in SwapIds :
          (/\ id \in DOMAIN swaps
           /\ \/ swaps[id].schema = "structured" /\ CompleteCheck(u, id)
              \/ swaps[id].schema = "simple" /\ SimpleCompleteCheck(u, id))
          => IF u \notin {swaps[id].requester, swaps[id].requestee}
               THEN /\ last' = Resp("complete", swaps[id].schema, 403, "Forbidden")
                    /\ NothingWritten
             ELSE IF swaps[id].status # "accepted"
               THEN /\ last' = Resp("complete", swaps[id].schema, 400, "InvalidState")
                    /\ NothingWritten
             ELSE /\ swaps' = swaps
                  /\ inflight' = inflight (+)
                       SetToBag({Cont("complete", swaps[id].schema, id, NoArg)})
     /\ \A c \in BagToSet(inflight) :
          ((CompleteSave(c) \/ SimpleCompleteSave(c)) /\ last'.code = 200)
          => /\ c.id \in DOMAIN swaps
             /\ swaps' = [swaps EXCEPT ![c.id] =
                            [swaps[c.id] EXCEPT !.status = "completed",
                                                !.completedAt = NewDate]]]_vars

\* --------------------------------------------------------------------- C9
\* C9: a stored request of either schema is removed only while its status
\* is pending or rejected.
C9_RemovedOnlyUnaccepted ==
  [][\A id \in DOMAIN swaps \ DOMAIN swaps' :
        swaps[id].status \in {"pending", "rejected"}]_vars

\* -------------------------------------------------------------------- C10
\* A Feedback record of the reviewer for the swap is stored.
HasFeedback(s, u) ==
  \E f \in DOMAIN feedbacks :
     feedbacks[f].swapRequest = s /\ feedbacks[f].reviewer = u

FeedbackSubmission(u, s, schema) ==
  \/ /\ schema = "structured"
     /\ \E e \in BodyRevieweeIds, r \in Ratings : FeedbackCheck(u, s, e, r)
  \/ /\ schema = "simple"
     /\ \E r \in Ratings : SimpleFeedbackCheck(u, s, r)

\* C11: a feedback submission whose swap is not stored in the route's
\* collection is answered 404 NotFound, one whose swap is stored with a
\* status other than completed is answered 400 InvalidState, and neither
\* stores anything; a Feedback record is inserted only for a stored swap
\* whose status is completed.
C11_SwapMustBeCompleted ==
  [][/\ \A u \in Users, s \in SwapIds, schema \in {"structured", "simple"} :
          FeedbackSubmission(u, s, schema)
          => IF s \notin DOMAIN swaps \/ swaps[s].schema # schema
               THEN /\ last' = Resp("feedback", schema, 404, "NotFound")
                    /\ NothingWritten
             ELSE IF swaps[s].status # "completed"
               THEN /\ last' = Resp("feedback", schema, 400, "InvalidState")
                    /\ NothingWritten
             ELSE last'.err \notin {"NotFound", "InvalidState"}
     /\ feedbacks' # feedbacks /\ DOMAIN feedbacks \subseteq DOMAIN feedbacks'
          => \A f \in DOMAIN feedbacks' \ DOMAIN feedbacks :
                /\ feedbacks'[f].swapRequest \in DOMAIN swaps
                /\ swaps[feedbacks'[f].swapRequest].status = "completed"]_vars

\* A submission for an accepted swap has just been refused.
C11_Witness ==
  /\ last = Resp("feedback", "simple", 400, "InvalidState")
  /\ \E s \in DOMAIN swaps : swaps[s].schema = "simple" /\ swaps[s].status = "accepted"
  /\ feedbacks = <<>>

\* -------------------------------------------------------------------- C12
\* C12: for every stored Feedback record whose swap is stored, the reviewer
\* is one of the two participants of the swap and the reviewee is the other
\* one: not the reviewer, not a third party.
C12_RevieweeIsOtherParticipant ==
  \A f \in DOMAIN feedbacks :
     feedbacks[f].swapRequest \in DOMAIN swaps
     => LET sw == swaps[feedbacks[f].swapRequest] IN
        /\ feedbacks[f].reviewer \in {sw.requester, sw.requestee}
        /\ feedbacks[f].reviewee \in {sw.requester, sw.requestee}
        /\ feedbacks[f].reviewee # feedbacks[f].reviewer

\* -------------------------------------------------------------------- C13
\* The swaps a sequence lists.
Range(q) == {q[i] : i \in DOMAIN q}

\* C13: whatever the page and the limit, every swap GET /api/swaps/completed
\* lists for a user is completed, has the user as requester or requestee,
\* and has no Feedback record with the user as reviewer.
C13_PendingFeedbackSound ==
  \A u \in Users, page \in Pages, limit \in Limits :
     \A q \in SortedByCompletedAt(CompletedQuery(u)) :
        \A id \in Range(SwapsNeedingFeedback(u, page, limit, q)) :
           /\ id \in DOMAIN swaps
           /\ swaps[id].status = "completed"
           /\ u \in {swaps[id].requester, swaps[id].requestee}
           /\ ~\E f \in DOMAIN feedbacks :
                  feedbacks[f].swapRequest = id /\ feedbacks[f].reviewer = u

\* Two completed swaps of a1, one of them reviewed by a1: the list holds
\* the other one only.
C13_Witness ==
  /\ last = NoResp
  /\ Cardinality(CompletedQuery("a1")) = 2
  /\ \E q \in SortedByCompletedAt(CompletedQuery("a1")) :
        /\ Len(SwapsNeedingFeedback("a1", 1, DefaultLimit, q)) = 1
        /\ HasFeedback(q[1], "a1")

\* -------------------------------------------------------------------- C14
\* The completed swaps of either schema that involve the user and that the
\* user has not reviewed.
PendingReviews(u) ==
  {id \in DOMAIN swaps :
     /\ swaps[id].status = "completed"
     /\ u \in {swaps[id].requester, swaps[id].requestee}
     /\ ~HasFeedback(id, u)}

\* C14: the pending-reviews view of a user is the set of completed swaps of
\* either schema that involve the user, minus the ones the user reviewed:
\* its first page lists swaps of that set, as many as the limit allows,
\* however many reviewed swaps the query returns ahead of them.
C14_PendingFeedbackComplete ==
  \A u \in Users, limit \in Limits :
     \A q \in SortedByCompletedAt(CompletedQuery(u)) :
        /\ Range(SwapsNeedingFeedback(u, 1, limit, q)) \subseteq PendingReviews(u)
        /\ Len(SwapsNeedingFeedback(u, 1, limit, q))
             = Min(limit, Cardinality(PendingReviews(u)))

\* -------------------------------------------------------------------- C15
\* The stored feedback addressed to the user that is public.
PublicRatingsOf(u) ==
  {f \in DOMAIN feedbacks : feedbacks[f].reviewee = u /\ feedbacks[f].isPublic = TRUE}

\* C15: for a user no public feedback is addressed to, GET
\* /api/feedback/user/:userId answers 0 for the three averages and for the
\* count, and GET /api/users/:id answers 0 for the average and the count,
\* whatever the page and the limit.
C15_ZeroWithoutFeedback ==
  [][/\ \A u \in Users, page \in Pages, limit \in Limits :
          (PublicRatingsOf(u) = {} /\ GetUserFeedback(u, page, limit))
          => /\ last'.code = 200
             /\ last'.avgRating = 0
             /\ last'.avgSkillRating = 0
             /\ last'.avgCommunicationRating = 0
             /\ last'.totalFeedback = 0
     /\ \A u \in Users :
          (PublicRatingsOf(u) = {} /\ GetUserProfile(u))
          => /\ last'.code = 200
             /\ last'.avgRating = 0
             /\ last'.totalFeedback = 0]_vars

\* Feedback is stored, none of it public, and the aggregates of a user have
\* just been answered as zero.
C15_Witness ==
  /\ last.op = "userFeedback"
  /\ last.totalFeedback = 0
  /\ last.avgRating = 0
  /\ feedbacks # <<>>
  /\ \A f \in DOMAIN feedbacks : ~feedbacks[f].isPublic

\* -------------------------------------------------------------------- C16
\* The sum of the ratings of a set of stored feedback records.
RECURSIVE RatingTotal(_)
RatingTotal(S) ==
  IF S = {} THEN 0
  ELSE LET f == CHOOSE g \in S : TRUE
       IN feedbacks[f].rating + RatingTotal(S \ {f})

\* The mean of n values of the given sum, rounded to one decimal place, in
\* tenths.
MeanTenths(sum, n) == (20 * sum + n) \div (2 * n)

\* C16: for a user with public feedback, the average rating either route
\* reports is the mean of the ratings of all public feedback addressed to
\* the user, rounded to one decimal place, whatever the page and the limit.
C16_MeanOfAllPublic ==
  [][/\ \A u \in Users, page \in Pages, limit \in Limits :
          (PublicRatingsOf(u) # {} /\ GetUserFeedback(u, page, limit))
          => last'.avgRating = MeanTenths(RatingTotal(PublicRatingsOf(u)),
                                          Cardinality(PublicRatingsOf(u)))
     /\ \A u \in Users :
          (PublicRatingsOf(u) # {} /\ GetUserProfile(u))
          => last'.avgRating = MeanTenths(RatingTotal(PublicRatingsOf(u)),
                                          Cardinality(PublicRatingsOf(u)))]_vars

\* -------------------------------------------------------------------- C17
\* The public feedback addressed to the user that carries a skill rating,
\* and the one that carries a communication rating.
WithSkillRating(u) ==
  {f \in PublicRatingsOf(u) : feedbacks[f].skillRating # Absent}

WithCommunicationRating(u) ==
  {f \in PublicRatingsOf(u) : feedbacks[f].communicationRating # Absent}

RECURSIVE SkillRatingTotal(_)
SkillRatingTotal(S) ==
  IF S = {} THEN 0
  ELSE LET f == CHOOSE g \in S : TRUE
       IN feedbacks[f].skillRating + SkillRatingTotal(S \ {f})

RECURSIVE CommunicationRatingTotal(_)
CommunicationRatingTotal(S) ==
  IF S = {} THEN 0
  ELSE LET f == CHOOSE g \in S : TRUE
       IN feedbacks[f].communicationRating + CommunicationRatingTotal(S \ {f})

\* C17: on a page that holds all the public feedback of a user, the skill
\* average is the mean over the records that carry a skill rating and the
\* communication average the mean over the records that carry a
\* communication rating; records without the sub-rating are left out of the
\* denominator.
C17_SubRatingsExcludeAbsent ==
  [][\A u \in Users :
        (/\ Cardinality(PublicRatingsOf(u)) <= DefaultLimit
         /\ GetUserFeedback(u, 1, DefaultLimit))
        => /\ WithSkillRating(u) # {}
              => last'.avgSkillRating =
                   MeanTenths(SkillRatingTotal(WithSkillRating(u)),
                              Cardinality(WithSkillRating(u)))
           /\ WithCommunicationRating(u) # {}
              => last'.avgCommunicationRating =
                   MeanTenths(CommunicationRatingTotal(WithCommunicationRating(u)),
                              Cardinality(WithCommunicationRating(u)))]_vars

\* -------------------------------------------------------------------- C18
\* What a request document is after each transition has been applied to it
\* in full.
Transitioned(d) ==
  IF d.schema = "structured"
    THEN {[d EXCEPT !.status = "accepted", !.responseMessage = m, !.acceptedAt = NewDate] :
             m \in ResponseMessages}
         \cup {[d EXCEPT !.status = "rejected", !.responseMessage = m, !.rejectedAt = NewDate] :
             m \in ResponseMessages}
         \cup {[d EXCEPT !.status = "cancelled", !.cancelledAt = NewDate],
               [d EXCEPT !.status = "completed", !.completedAt = NewDate]}
    ELSE {[d EXCEPT !.status = "accepted"],
          [d EXCEPT !.status = "completed", !.completedAt = NewDate]}

C19_PartiesExist ==
  \A id \in DOMAIN swaps :
     /\ swaps[id].requester \in Users
     /\ swaps[id].requestee \in Users

\* ------------------------------------------------------------------ C20
\* The user has an active UserSkill document of type offered for the skill.
Offers(u, k) == <<u, k>> \in userSkills

SkillRefusals == {"SkillNotOwned", "SkillNotOffered"}

C21_RejectSucceeds ==
  [][\A c \in BagToSet(inflight) :
        (/\ RejectSave(c) \/ SimpleActionSave(c)
         /\ c.op = "reject"
         /\ c.id \in DOMAIN swaps
         /\ swaps[c.id].status = "pending")
          => /\ last'.code = 200
             /\ swaps'[c.id].status = "rejected"]_vars

\* ------------------------------------------------------------------ C22
\* C22: a lifecycle timestamp is set when its transition has happened: a
\* stored request in status accepted or rejected has its response timestamp
\* set, one in completed has completedAt set and one in cancelled has
\* cancelledAt set.
C22_TimestampsSet ==
  \A id \in DOMAIN swaps :
     /\ swaps[id].status = "accepted"
          => (swaps[id].acceptedAt # Null \/ swaps[id].respondedAt # Null)
     /\ swaps[id].status = "rejected"
          => (swaps[id].rejectedAt # Null \/ swaps[id].respondedAt # Null)
     /\ swaps[id].status = "completed" => swaps[id].completedAt # Null
     /\ swaps[id].status = "cancelled" => swaps[id].cancelledAt # Null

\* ------------------------------------------------------------------ C23
\* C23: in every state, also those reached when submissions by one reviewer
\* for one swap overlap between the existing-feedback lookup and the insert,
\* at most one Feedback record exists per (swapRequest, reviewer) pair.
C23_OneFeedbackPerReviewer ==
  \A f, g \in DOMAIN feedbacks :
     (/\ feedbacks[f].swapRequest = feedbacks[g].swapRequest
      /\ feedbacks[f].reviewer = feedbacks[g].reviewer) => f = g

\* Two submissions by a1 for swap 1 both passed the lookup; the first was
\* inserted and the second was turned away by the index.
C23_Witness ==
  /\ last = Resp("feedback", "structured", 500, "ServerError")
  /\ \E f \in DOMAIN feedbacks :
        feedbacks[f].swapRequest = 1 /\ feedbacks[f].reviewer = "a1"

\* ------------------------------------------------------------------ C24
\* C24: a feedback submission, update or delete, whether it succeeds or
\* fails, leaves every request record as it was.
C24_SwapsUntouched ==
  [][(\/ FeedbackRequests
      \/ FeedbackUpdateRequests
      \/ FeedbackCommits
      \/ FeedbackUpdateCommits) => swaps' = swaps]_vars

\* A submission for swap 1 was stored and then updated by its reviewer, and
\* swap 1 is the completed request it was before.
C24_Witness ==
  /\ last = Resp("updateFeedback", "feedback", 200, "ok")
  /\ \E f \in DOMAIN feedbacks :
        feedbacks[f].swapRequest = 1 /\ feedbacks[f].rating = 4
  /\ swaps[1].status = "completed"

\* ------------------------------------------------------------------ C25
\* C25: an update or delete of a Feedback record by anyone but its reviewer
\* is answered Forbidden and neither writes nor goes on to write anything;
\* no step changes the swapRequest, reviewer or reviewee of a stored
\* record; a record changes only in the write of an update of that record
\* and disappears only in the write of a delete of that record.
C25_ReviewerOnly ==
  [][/\ \A u \in Users, id \in DOMAIN feedbacks, b \in UpdateBodies :
          (/\ feedbacks[id].reviewer # u
           /\ FeedbackUpdateCheck(u, id, b) \/ FeedbackDeleteCheck(u, id))
            => /\ last'.code = 403
               /\ last'.err = "Forbidden"
               /\ NothingWritten
     /\ \A id \in DOMAIN feedbacks \cap DOMAIN feedbacks' :
          /\ feedbacks'[id].swapRequest = feedbacks[id].swapRequest
          /\ feedbacks'[id].reviewer = feedbacks[id].reviewer
          /\ feedbacks'[id].reviewee = feedbacks[id].reviewee
          /\ feedbacks'[id] # feedbacks[id]
               => \E c \in BagToSet(inflight) :
                     c.op = "updateFeedback" /\ c.id = id /\ inflight' = inflight (-) SetToBag({c})
     /\ \A id \in DOMAIN feedbacks \ DOMAIN feedbacks' :
          \E c \in BagToSet(inflight) :
             c.op = "deleteFeedback" /\ c.id = id /\ inflight' = inflight (-) SetToBag({c})]_vars

\* The reviewer has changed the rating of a record, and an update by
\* someone else was refused.
C25_Witness ==
  /\ last = Resp("updateFeedback", "feedback", 403, "Forbidden")
  /\ \E f \in DOMAIN feedbacks : feedbacks[f].rating = 4

\* ------------------------------------------------------------------ C26
\* C26: in every state, every Feedback record refers to a stored request
\* whose status is completed.
C26_FeedbackRefersToCompleted ==
  \A f \in DOMAIN feedbacks :
     /\ feedbacks[f].swapRequest \in DOMAIN swaps
     /\ swaps[feedbacks[f].swapRequest].status = "completed"

\* ------------------------------------------------------------------ C27
\* The user is banned or has deleted the account.
Blocked(u) == accounts[u].isBanned \/ ~accounts[u].isActive

\* C27: with requests handled one at a time, while a user is banned or
\* inactive no step makes a change only that user could ask for: no request
\* with that user as requester is inserted, cancelled or (structured)
\* deleted, no request with that user as requestee is accepted or rejected,
\* no request whose two parties are both blocked is completed or removed,
\* and no Feedback record with that user as reviewer is inserted, changed
\* or removed; a refusal by protect writes nothing, and a ban, an unban or
\* an account deletion leaves every request and Feedback record as it is.
C27_BlockedUsersRefused ==
  [][/\ \A u \in Users :
          Blocked(u)
            => /\ \A id \in DOMAIN swaps' \ DOMAIN swaps : swaps'[id].requester # u
               /\ \A id \in DOMAIN swaps \cap DOMAIN swaps' :
                    swaps'[id].status # swaps[id].status
                      => /\ swaps'[id].status \in {"accepted", "rejected"}
                              => swaps[id].requestee # u
                         /\ swaps'[id].status = "cancelled" => swaps[id].requester # u
                         /\ swaps'[id].status = "completed"
                              => \/ ~Blocked(swaps[id].requester)
                                 \/ /\ swaps[id].requestee \in Users
                                    /\ ~Blocked(swaps[id].requestee)
               /\ \A id \in DOMAIN swaps \ DOMAIN swaps' :
                    /\ swaps[id].schema = "structured" => swaps[id].requester # u
                    /\ \/ ~Blocked(swaps[id].requester)
                       \/ /\ swaps[id].requestee \in Users
                          /\ ~Blocked(swaps[id].requestee)
               /\ \A f \in DOMAIN feedbacks' \ DOMAIN feedbacks : feedbacks'[f].reviewer # u
               /\ \A f \in DOMAIN feedbacks \ DOMAIN feedbacks' : feedbacks[f].reviewer # u
               /\ \A f \in DOMAIN feedbacks \cap DOMAIN feedbacks' :
                    feedbacks'[f] # feedbacks[f] => feedbacks[f].reviewer # u
     /\ last'.op = "protect" => NothingWritten
     /\ accounts' # accounts => swaps' = swaps /\ feedbacks' = feedbacks]_vars

\* b2 is banned while a request to b2 is pending, and b2's call was refused
\* by protect.
C27_Witness ==
  /\ last = Resp("protect", "auth", 403, "Banned")
  /\ accounts["b2"].isBanned
  /\ ~accounts["a1"].isBanned
  /\ \E id \in DOMAIN swaps : swaps[id].requestee = "b2" /\ swaps[id].status = "pending"

\* ------------------------------------------------------------------ C28
\* C28: no step changes the requester, requestee, offeredSkill or
\* wantedSkill of a stored request: as long as the record exists these
\* fields are the ones it was created with, also when transitions overlap.
C28_PartiesAndSkillsFixed ==
  [][\A id \in DOMAIN swaps \cap DOMAIN swaps' :
        /\ swaps'[id].schema = swaps[id].schema
        /\ swaps'[id].requester = swaps[id].requester
        /\ swaps'[id].requestee = swaps[id].requestee
        /\ swaps'[id].offeredSkill = swaps[id].offeredSkill
        /\ swaps'[id].wantedSkill = swaps[id].wantedSkill]_vars

\* A structured request of a1 to b2, k1 for k2, has been accepted and
\* completed.
C28_Witness ==
  /\ last = Resp("complete", "structured", 200, "ok")
  /\ \E id \in DOMAIN swaps :
        /\ swaps[id] = [NewSwap("structured", "a1", "b2", "k1", "k2")
                          EXCEPT !.status = "completed", !.responseMessage = "msg",
                                 !.acceptedAt = NewDate, !.completedAt = NewDate]

C30_EligibilityRestored ==
  [][\A c \in BagToSet(inflight) :
        (/\ c.op = "deleteFeedback"
         /\ c.id \in DOMAIN feedbacks
         /\ FeedbackFindByIdAndDelete(c)
         /\ feedbacks[c.id].swapRequest \in DOMAIN swaps
         /\ swaps[feedbacks[c.id].swapRequest].status = "completed")
          => \A q \in SortedByCompletedAt(CompletedQuery(feedbacks[c.id].reviewer)) :
                feedbacks[c.id].swapRequest
                  \in Range(SwapsNeedingFeedback(feedbacks[c.id].reviewer, 1, DefaultLimit, q))']_vars

====
